---- MODULE Spec2Model ----
(***************************************************************************)
(* Model of the animal-vocalization capture & analysis platform backend    *)
(* (FastAPI routes + Celery worker + S3 storage + SQL tables).             *)
(*                                                                         *)
(* State: the three SQL tables (users, audio_files, analysis_results), the *)
(* S3 bucket, the Celery broker queue and result backend, and the last     *)
(* HTTP response handed to a caller.                                       *)
(*                                                                         *)
(* Five specifications are given.                                          *)
(*   Spec       the route functions and the worker task, each route called *)
(*              with current_user being the User object its dependency     *)
(*              yields (an active user holding researcher).                *)
(*   SpecGate   whole HTTP requests: a bearer token goes through the       *)
(*              dependency chain get_current_active_researcher ->          *)
(*              get_current_user -> decode_access_token / get_user_by_id   *)
(*              exactly as wired in auth.py, and only then into the route. *)
(*   SpecIngest the upload route over the full range of payloads and file  *)
(*              names, and storage.py's retrieve_encrypted_audio_file      *)
(*              reading the stored objects back.                           *)
(*   SpecWorker the worker task and the analysis routes over an            *)
(*              audio_files table holding rows of any species.             *)
(*   SpecLive   Spec with the worker weakly fair: a queued task is         *)
(*              eventually taken by the celery worker.                     *)
(*                                                                         *)
(* AES_KEY and AES_IV stand for the key and IV the environment supplies    *)
(* (32 and 16 bytes); the fallback literals of storage.py are no valid AES *)
(* parameters.                                                             *)
(***************************************************************************)
EXTENDS Integers, Sequences, FiniteSets, TLC

\* ---------------------------------------------------------------- bounds
MaxFiles == 2
MaxTasks == 2

\* ------------------------------------------------------------- constants
\* Python's None, where the model compares it with strings
None == "None"
\* a user_id that is None, and the User that is None
NoUserId == 0
NoUser == [id |-> NoUserId, is_active |-> FALSE, roles |-> {}]
\* a translation / behavioral_tags / accuracy column that is NULL
Null == <<>>
\* a request that carried no bearer token (the route was called directly)
NoToken == [sig_ok |-> FALSE, exp |-> "no token", user_id |-> NoUserId, roles |-> {}]

ROLE_RESEARCHER == "researcher"
ROLE_ADMIN == "admin"
SUPPORTED_ROLES == {ROLE_RESEARCHER, ROLE_ADMIN}

SUPPORTED_SPECIES ==
    {"canis_lupus", "panthera_leo", "delphinus_delphis", "gorilla_gorilla", "elephas_maximus"}

SUPPORTED_AUDIO_FORMATS == {"wav", "mp3", "flac"}

MAX_FILE_SIZE == 52428800

\* rows of the users table (ids), and an id no row has
UserIds == {1, 2}
UnknownUserId == 3

\* inputs the requests are drawn from
SpeciesInputs == {"canis_lupus", "felis_catus"}
FilenameInputs == {<<"howl", "WAV">>, <<"howl", "ogg">>}
SizeInputs == {1, MAX_FILE_SIZE + 1}
\* the byte the payloads of the requests are filled with
FillByte == 65
\* which external call of a request or task fails: none, the S3 call, the DB commit
FaultInputs == {"none", "s3", "db"}

VARIABLES
    users,             \* users table: id -> [is_active]
    audio_files,       \* audio_files table: sequence of rows, id = index
    s3,                \* bucket: object key -> stored (encrypted) blob
    analysis_results,  \* analysis_results table: sequence of rows, id = index
    broker,            \* Celery broker: tasks enqueued and not yet executed
    celery_results,    \* Celery result backend: task id -> task return value
    resp,              \* the response of the last request
    credential         \* the bearer token of the last request (NoToken: route called directly)

vars == <<users, audio_files, s3, analysis_results, broker, celery_results, resp, credential>>
pipeline == <<audio_files, s3, analysis_results, broker, celery_results>>

\* ------------------------------------------------------------ storage.py
\* str.lower() on the extensions the inputs use
Lower(s) ==
    CASE s = "WAV" -> "wav"
      [] s = "OGG" -> "ogg"
      [] OTHER -> s

\* A byte string is kept run-length encoded: a sequence of runs [b, n] (n > 0
\* copies of the byte b), adjacent runs carrying different bytes, so that equal
\* byte strings are equal values and a 50 MiB payload is one run.
Repeat(b, n) == IF n = 0 THEN <<>> ELSE <<[b |-> b, n |-> n]>>

\* x + y
Concat(x, y) ==
    IF x = <<>> THEN y
    ELSE IF y = <<>> THEN x
    ELSE IF x[Len(x)].b = y[1].b
    THEN SubSeq(x, 1, Len(x) - 1)
            \o <<[b |-> y[1].b, n |-> x[Len(x)].n + y[1].n]>>
            \o SubSeq(y, 2, Len(y))
    ELSE x \o y

\* len(x)
RECURSIVE BytesLen(_)
BytesLen(x) == IF x = <<>> THEN 0 ELSE x[1].n + BytesLen(Tail(x))

\* x[-1]
LastByte(x) == x[Len(x)].b

\* x[:-k] for k > 0
RECURSIVE DropLast(_, _)
DropLast(x, k) ==
    IF x = <<>> THEN <<>>
    ELSE IF x[Len(x)].n > k
    THEN SubSeq(x, 1, Len(x) - 1) \o <<[b |-> x[Len(x)].b, n |-> x[Len(x)].n - k]>>
    ELSE DropLast(SubSeq(x, 1, Len(x) - 1), k - x[Len(x)].n)

\* the deployment's key and initialization vector: one value each, read once
\* from the environment at import
AES_KEY == "AES_KEY"
AES_IV == "AES_IV"

\* Cipher(AES(AES_KEY), CBC(AES_IV)).encryptor(): a length-preserving bijection
\* on block-aligned byte strings, fixed by key and IV; the ciphertext is kept
\* as the term naming key, IV and plaintext
AesCbcEncrypt(key, iv, plain) == [key |-> key, iv |-> iv, plain |-> plain]

\* encrypt_bytes(data) padding with pad_len = (16 - len % 16) % 16: a payload
\* whose length is a multiple of 16 gets no padding
encrypt_bytes_NoFullBlock(data) ==
    LET pad_len == (16 - (BytesLen(data) % 16)) % 16
    IN  AesCbcEncrypt(AES_KEY, AES_IV, Concat(data, Repeat(pad_len, pad_len)))

\* encrypt_bytes(data): PKCS7 padding, pad_len = 16 - len % 16 bytes each of
\* value pad_len, then AES-CBC
encrypt_bytes(data) ==
    LET pad_len == 16 - (BytesLen(data) % 16)
        padded_data == Concat(data, Repeat(pad_len, pad_len))
    IN  AesCbcEncrypt(AES_KEY, AES_IV, padded_data)

\* decrypt_bytes(data): decryptor.finalize() raises ValueError when the
\* ciphertext is not block-aligned; decrypted[-1] raises IndexError on an empty
\* one; otherwise the last byte is taken as pad_len, unchecked, and
\* decrypted[:-pad_len] is returned (the empty string when pad_len is 0 or
\* exceeds the length)
decrypt_bytes(data) ==
    LET decrypted == data.plain
    IN  IF BytesLen(decrypted) % 16 # 0
        THEN [raised |-> "ValueError", bytes |-> <<>>]
        ELSE IF decrypted = <<>>
        THEN [raised |-> "IndexError", bytes |-> <<>>]
        ELSE LET pad_len == LastByte(decrypted)
             IN  [raised |-> None,
                  bytes |-> IF pad_len = 0 THEN <<>> ELSE DropLast(decrypted, pad_len)]

\* what the backend hands back in place of the stored ciphertext when the
\* object is damaged: ciphertexts whose decryption ends in the byte 0, in a
\* byte above 16, in padding bytes that are not all equal, and a ciphertext cut
\* to 15 bytes
CorruptInputs ==
    [pad_zero   |-> AesCbcEncrypt(AES_KEY, AES_IV, Concat(Repeat(FillByte, 15), Repeat(0, 1))),
     pad_large  |-> AesCbcEncrypt(AES_KEY, AES_IV, Concat(Repeat(FillByte, 15), Repeat(200, 1))),
     pad_uneven |-> AesCbcEncrypt(AES_KEY, AES_IV,
                        Concat(Repeat(FillByte, 13), Concat(Repeat(7, 1), Repeat(3, 2)))),
     truncated  |-> AesCbcEncrypt(AES_KEY, AES_IV, Repeat(FillByte, 15))]

\* s3.get_object(...)["Body"].read(): ClientError on a backend fault or a
\* missing key, else the object's bytes
get_object(object_key, fault) ==
    IF fault = "s3" \/ object_key \notin DOMAIN s3
    THEN [raised |-> "ClientError", Body |-> <<>>]
    ELSE IF fault \in DOMAIN CorruptInputs
    THEN [raised |-> None, Body |-> CorruptInputs[fault]]
    ELSE [raised |-> None, Body |-> s3[object_key]]

\* retrieve_encrypted_audio_file(object_key): a backend error is logged and
\* re-raised, any other exception propagates as it is; otherwise the bytes
\* decrypt_bytes returned
retrieve_encrypted_audio_file(object_key, fault) ==
    LET response == get_object(object_key, fault)
        decrypted_bytes == decrypt_bytes(response.Body)
    IN  IF response.raised # None
        THEN [ok |-> FALSE, raised |-> response.raised, bytes |-> <<>>]
        ELSE [ok |-> decrypted_bytes.raised = None,
              raised |-> decrypted_bytes.raised,
              bytes |-> decrypted_bytes.bytes]

\* s3.put_object(Bucket, Key, Body): the object under Key is Body afterwards,
\* whatever was there before
put_object(bucket, object_key, body) ==
    [k \in DOMAIN bucket \cup {object_key} |-> IF k = object_key THEN body ELSE bucket[k]]

\* store_encrypted_audio_file calling put_object again after it raised
store_encrypted_audio_file_Retrying(object_key, file_bytes, s3_fault) ==
    LET encrypted_bytes == encrypt_bytes(file_bytes)
    IN  [raised |-> FALSE,
         puts |-> IF s3_fault THEN 2 ELSE 1,
         bucket |-> put_object(s3, object_key, encrypted_bytes)]

\* store_encrypted_audio_file(object_key, file_bytes, content_type); s3_fault is
\* put_object raising BotoCoreError/ClientError, which is logged and re-raised.
\* puts counts the put_object calls made, bucket is the bucket afterwards
store_encrypted_audio_file(object_key, file_bytes, s3_fault) ==
    LET encrypted_bytes == encrypt_bytes(file_bytes)
    IN  IF s3_fault
        THEN [raised |-> TRUE, puts |-> 1, bucket |-> s3]
        ELSE [raised |-> FALSE, puts |-> 1,
              bucket |-> put_object(s3, object_key, encrypted_bytes)]

\* ------------------------------------------------------------- models.py
\* db.query(AnalysisResult).filter(audio_file_id == id).order_by(created_at.desc()).first()
\* as the id of the row, 0 when there is none
ResultIdsOf(audio_file_id) ==
    {i \in 1..Len(analysis_results) : analysis_results[i].audio_file_id = audio_file_id}

LatestResult(audio_file_id) ==
    IF ResultIdsOf(audio_file_id) = {} THEN 0
    ELSE CHOOSE i \in ResultIdsOf(audio_file_id) :
            \A j \in ResultIdsOf(audio_file_id) :
                analysis_results[j].created_at <= analysis_results[i].created_at

\* get_audio_file_by_id(audio_file_id, db): the row's id, 0 when there is none
get_audio_file_by_id(audio_file_id) ==
    IF audio_file_id \in 1..Len(audio_files) THEN audio_file_id ELSE 0

\* ------------------------------------------------------------- responses
NoResp == [op |-> "none", user |-> 0, file |-> 0, status |-> 0, detail |-> "", result |-> 0]

\* what a request answers: the HTTP status, the detail / message, and the id of
\* the AnalysisResult row in the body (0: none)
Reply(status, detail, result) == [status |-> status, detail |-> detail, result |-> result]

Respond(op, user, file, reply) ==
    resp' = [op |-> op, user |-> user, file |-> file, status |-> reply.status,
             detail |-> reply.detail, result |-> reply.result]

\* AnalysisResponse(analysis_result=..., message=...): the field analysis_result is
\* declared AnalysisResultRead, not Optional, so constructing the response with
\* None raises a pydantic ValidationError, which main.py's handler for Exception
\* turns into 500 "Internal server error".
AnalysisResponse(result, message) ==
    IF result = 0
    THEN Reply(500, "Internal server error", 0)
    ELSE Reply(200, message, result)

\* ---------------------------------------------------------- ml_worker.py
TaskCount == Cardinality(broker) + Cardinality(DOMAIN celery_results)

run_translation_and_tagging(species) ==
    [translation |-> <<"Simulated translation for", species>>,
     tags |-> IF species = "canis_lupus" THEN <<"mating_call", "territorial">>
              ELSE <<"aggression">>,
     accuracy |-> 85]

\* the row built without the species check: every species is translated
BuildResult_TranslatesAll(file_id, noise, overlap) ==
    LET species == audio_files[file_id].species
        ml == run_translation_and_tagging(species)
    IN  [audio_file_id |-> file_id,
         translation |-> ml.translation,
         behavioral_tags |-> ml.tags,
         accuracy |-> ml.accuracy,
         quality_issues |-> [noise |-> noise, overlap |-> overlap],
         partial |-> (noise \/ overlap),
         created_at |-> Len(analysis_results) + 1]

\* the row built with partial taken from the quality flags alone
BuildResult_PartialFromFlags(file_id, noise, overlap) ==
    LET species == audio_files[file_id].species
        ml == run_translation_and_tagging(species)
        supported == species \in SUPPORTED_SPECIES
    IN  [audio_file_id |-> file_id,
         translation |-> IF supported THEN ml.translation ELSE Null,
         behavioral_tags |-> IF supported THEN ml.tags ELSE Null,
         accuracy |-> IF supported THEN ml.accuracy ELSE Null,
         quality_issues |-> [noise |-> noise, overlap |-> overlap],
         partial |-> (noise \/ overlap),
         created_at |-> Len(analysis_results) + 1]

\* the AnalysisResult row the task builds
BuildResult(file_id, noise, overlap) ==
    LET species == audio_files[file_id].species
        quality_issues == [noise |-> noise, overlap |-> overlap]
        ml == run_translation_and_tagging(species)
        supported == species \in SUPPORTED_SPECIES
    IN  [audio_file_id |-> file_id,
         translation |-> IF supported THEN ml.translation ELSE Null,
         behavioral_tags |-> IF supported THEN ml.tags ELSE Null,
         accuracy |-> IF supported THEN ml.accuracy ELSE Null,
         quality_issues |-> quality_issues,
         partial |-> IF supported THEN (noise \/ overlap) ELSE TRUE,
         created_at |-> Len(analysis_results) + 1]

\* the task taken off the queue without its outcome being kept
Finish_Drops(task, ret) ==
    /\ broker' = broker \ {task}
    /\ UNCHANGED celery_results

\* the task's return value stored in the result backend
Finish(task, ret) ==
    /\ broker' = broker \ {task}
    /\ celery_results' = celery_results @@ (task.id :> [audio_file_id |-> task.audio_file_id, ret |-> ret])

\* run_analysis_task writing back to the audio_files row it analysed
run_analysis_task_MarksFile(task, s3_fault, db_fault, noise, overlap) ==
    LET file_id == get_audio_file_by_id(task.audio_file_id)
    IN  /\ task \in broker
        /\ IF file_id = 0
           THEN /\ Finish(task, [error |-> "Audio file not found", result_id |-> 0])
                /\ UNCHANGED <<analysis_results, audio_files>>
           ELSE IF ~retrieve_encrypted_audio_file(audio_files[file_id].s3_object_key,
                                                  IF s3_fault THEN "s3" ELSE "none").ok
           THEN /\ Finish(task, [error |-> "Failed to retrieve audio file", result_id |-> 0])
                /\ UNCHANGED <<analysis_results, audio_files>>
           ELSE IF db_fault
           THEN /\ Finish(task, [error |-> "ML analysis failed", result_id |-> 0])
                /\ UNCHANGED <<analysis_results, audio_files>>
           ELSE /\ analysis_results' = Append(analysis_results, BuildResult(file_id, noise, overlap))
                /\ audio_files' = [audio_files EXCEPT ![file_id].is_encrypted = FALSE]
                /\ Finish(task, [error |-> None, result_id |-> Len(analysis_results) + 1])
        /\ UNCHANGED <<users, s3, resp, credential>>

\* run_analysis_task(audio_file_id), executed by a worker for one queued task
run_analysis_task(task, s3_fault, db_fault, noise, overlap) ==
    LET file_id == get_audio_file_by_id(task.audio_file_id)
    IN  /\ task \in broker
        /\ IF file_id = 0
           THEN /\ Finish(task, [error |-> "Audio file not found", result_id |-> 0])
                /\ UNCHANGED analysis_results
           ELSE IF ~retrieve_encrypted_audio_file(audio_files[file_id].s3_object_key,
                                                  IF s3_fault THEN "s3" ELSE "none").ok
           THEN /\ Finish(task, [error |-> "Failed to retrieve audio file", result_id |-> 0])
                /\ UNCHANGED analysis_results
           ELSE IF db_fault
           THEN /\ Finish(task, [error |-> "ML analysis failed", result_id |-> 0])
                /\ UNCHANGED analysis_results
           ELSE /\ analysis_results' = Append(analysis_results, BuildResult(file_id, noise, overlap))
                /\ Finish(task, [error |-> None, result_id |-> Len(analysis_results) + 1])
        /\ UNCHANGED <<users, audio_files, s3, resp, credential>>

\* ------------------------------------------------ routes/audio_analysis.py
\* trigger_audio_analysis without its look for an existing AnalysisResult
trigger_audio_analysis_NoResultCheck(current_user, audio_file_id, broker_up) ==
    LET file_id == get_audio_file_by_id(audio_file_id)
    IN  IF file_id = 0
        THEN /\ Respond("trigger", current_user.id, audio_file_id,
                        Reply(404, "Audio file not found.", 0))
             /\ UNCHANGED <<users, pipeline>>
        ELSE IF audio_files[file_id].uploader_id # current_user.id
        THEN /\ Respond("trigger", current_user.id, audio_file_id,
                        Reply(403, "You do not have access to this audio file.", 0))
             /\ UNCHANGED <<users, pipeline>>
        ELSE IF ~broker_up
        THEN /\ Respond("trigger", current_user.id, audio_file_id,
                        Reply(500, "Failed to trigger ML analysis.", 0))
             /\ UNCHANGED <<users, pipeline>>
        ELSE /\ TaskCount < MaxTasks
             /\ broker' = broker \cup {[id |-> TaskCount + 1, audio_file_id |-> audio_file_id]}
             /\ Respond("trigger", current_user.id, audio_file_id,
                        AnalysisResponse(0, "Analysis job started. Please check back for results."))
             /\ UNCHANGED <<users, audio_files, s3, analysis_results, celery_results>>

\* trigger_audio_analysis treating a file whose task already ran (and failed) as
\* closed: it enqueues only when no task was ever executed for the file
trigger_audio_analysis_OncePerFile(current_user, audio_file_id, broker_up) ==
    LET file_id == get_audio_file_by_id(audio_file_id)
        analysis_result == LatestResult(audio_file_id)
        ran == \E t \in DOMAIN celery_results : celery_results[t].audio_file_id = audio_file_id
    IN  IF file_id = 0
        THEN /\ Respond("trigger", current_user.id, audio_file_id,
                        Reply(404, "Audio file not found.", 0))
             /\ UNCHANGED <<users, pipeline>>
        ELSE IF audio_files[file_id].uploader_id # current_user.id
        THEN /\ Respond("trigger", current_user.id, audio_file_id,
                        Reply(403, "You do not have access to this audio file.", 0))
             /\ UNCHANGED <<users, pipeline>>
        ELSE IF analysis_result # 0
        THEN /\ Respond("trigger", current_user.id, audio_file_id,
                        AnalysisResponse(analysis_result, "Analysis already completed."))
             /\ UNCHANGED <<users, pipeline>>
        ELSE IF ~broker_up \/ ran
        THEN /\ Respond("trigger", current_user.id, audio_file_id,
                        Reply(500, "Failed to trigger ML analysis.", 0))
             /\ UNCHANGED <<users, pipeline>>
        ELSE /\ TaskCount < MaxTasks
             /\ broker' = broker \cup {[id |-> TaskCount + 1, audio_file_id |-> audio_file_id]}
             /\ Respond("trigger", current_user.id, audio_file_id,
                        AnalysisResponse(0, "Analysis job started. Please check back for results."))
             /\ UNCHANGED <<users, audio_files, s3, analysis_results, celery_results>>

\* trigger_audio_analysis keeping a failed job for a dispatch that raised
trigger_audio_analysis_RecordsFailedDispatch(current_user, audio_file_id, broker_up) ==
    LET file_id == get_audio_file_by_id(audio_file_id)
        analysis_result == LatestResult(audio_file_id)
    IN  IF file_id = 0
        THEN /\ Respond("trigger", current_user.id, audio_file_id,
                        Reply(404, "Audio file not found.", 0))
             /\ UNCHANGED <<users, pipeline>>
        ELSE IF audio_files[file_id].uploader_id # current_user.id
        THEN /\ Respond("trigger", current_user.id, audio_file_id,
                        Reply(403, "You do not have access to this audio file.", 0))
             /\ UNCHANGED <<users, pipeline>>
        ELSE IF analysis_result # 0
        THEN /\ Respond("trigger", current_user.id, audio_file_id,
                        AnalysisResponse(analysis_result, "Analysis already completed."))
             /\ UNCHANGED <<users, pipeline>>
        ELSE IF ~broker_up
        THEN /\ TaskCount < MaxTasks
             /\ celery_results' = celery_results @@
                    (TaskCount + 1 :> [audio_file_id |-> audio_file_id,
                                       ret |-> [error |-> "dispatch failed", result_id |-> 0]])
             /\ Respond("trigger", current_user.id, audio_file_id,
                        Reply(500, "Failed to trigger ML analysis.", 0))
             /\ UNCHANGED <<users, audio_files, s3, analysis_results, broker>>
        ELSE /\ TaskCount < MaxTasks
             /\ broker' = broker \cup {[id |-> TaskCount + 1, audio_file_id |-> audio_file_id]}
             /\ Respond("trigger", current_user.id, audio_file_id,
                        AnalysisResponse(0, "Analysis job started. Please check back for results."))
             /\ UNCHANGED <<users, audio_files, s3, analysis_results, celery_results>>

\* trigger_audio_analysis with the task run inside the request (celery's
\* task_always_eager): the request returns after the analysis has been stored
trigger_audio_analysis_Eager(current_user, audio_file_id, broker_up) ==
    LET file_id == get_audio_file_by_id(audio_file_id)
        analysis_result == LatestResult(audio_file_id)
    IN  IF file_id = 0
        THEN /\ Respond("trigger", current_user.id, audio_file_id,
                        Reply(404, "Audio file not found.", 0))
             /\ UNCHANGED <<users, pipeline>>
        ELSE IF audio_files[file_id].uploader_id # current_user.id
        THEN /\ Respond("trigger", current_user.id, audio_file_id,
                        Reply(403, "You do not have access to this audio file.", 0))
             /\ UNCHANGED <<users, pipeline>>
        ELSE IF analysis_result # 0
        THEN /\ Respond("trigger", current_user.id, audio_file_id,
                        AnalysisResponse(analysis_result, "Analysis already completed."))
             /\ UNCHANGED <<users, pipeline>>
        ELSE IF ~broker_up
        THEN /\ Respond("trigger", current_user.id, audio_file_id,
                        Reply(500, "Failed to trigger ML analysis.", 0))
             /\ UNCHANGED <<users, pipeline>>
        ELSE /\ TaskCount < MaxTasks
             /\ analysis_results' = Append(analysis_results, BuildResult(file_id, FALSE, FALSE))
             /\ celery_results' = celery_results @@
                    (TaskCount + 1 :> [audio_file_id |-> audio_file_id,
                                       ret |-> [error |-> None,
                                                result_id |-> Len(analysis_results) + 1]])
             /\ Respond("trigger", current_user.id, audio_file_id,
                        AnalysisResponse(0, "Analysis job started. Please check back for results."))
             /\ UNCHANGED <<users, audio_files, s3, broker>>

\* trigger_audio_analysis(audio_file_id, current_user, db); broker_up = FALSE is
\* run_analysis_task.delay raising
trigger_audio_analysis(current_user, audio_file_id, broker_up) ==
    LET file_id == get_audio_file_by_id(audio_file_id)
        analysis_result == LatestResult(audio_file_id)
    IN  IF file_id = 0
        THEN /\ Respond("trigger", current_user.id, audio_file_id,
                        Reply(404, "Audio file not found.", 0))
             /\ UNCHANGED <<users, pipeline>>
        ELSE IF audio_files[file_id].uploader_id # current_user.id
        THEN /\ Respond("trigger", current_user.id, audio_file_id,
                        Reply(403, "You do not have access to this audio file.", 0))
             /\ UNCHANGED <<users, pipeline>>
        ELSE IF analysis_result # 0
        THEN /\ Respond("trigger", current_user.id, audio_file_id,
                        AnalysisResponse(analysis_result, "Analysis already completed."))
             /\ UNCHANGED <<users, pipeline>>
        ELSE IF ~broker_up
        THEN /\ Respond("trigger", current_user.id, audio_file_id,
                        Reply(500, "Failed to trigger ML analysis.", 0))
             /\ UNCHANGED <<users, pipeline>>
        ELSE /\ TaskCount < MaxTasks
             /\ broker' = broker \cup {[id |-> TaskCount + 1, audio_file_id |-> audio_file_id]}
             /\ Respond("trigger", current_user.id, audio_file_id,
                        AnalysisResponse(0, "Analysis job started. Please check back for results."))
             /\ UNCHANGED <<users, audio_files, s3, analysis_results, celery_results>>

\* ResultReply without the uploader_id check
ResultReply_NoOwnerCheck(current_user, audio_file_id) ==
    LET file_id == get_audio_file_by_id(audio_file_id)
        analysis_result == LatestResult(audio_file_id)
    IN  IF file_id = 0
        THEN Reply(404, "Audio file not found.", 0)
        ELSE IF analysis_result = 0
        THEN AnalysisResponse(0, "Analysis not yet completed.")
        ELSE AnalysisResponse(analysis_result, "Analysis completed.")

\* ResultReply checking the uploader before the existence of the file
ResultReply_OwnerFirst(current_user, audio_file_id) ==
    LET file_id == get_audio_file_by_id(audio_file_id)
        analysis_result == LatestResult(audio_file_id)
    IN  IF file_id = 0 \/ audio_files[file_id].uploader_id # current_user.id
        THEN Reply(403, "You do not have access to this audio file.", 0)
        ELSE IF analysis_result = 0
        THEN AnalysisResponse(0, "Analysis not yet completed.")
        ELSE AnalysisResponse(analysis_result, "Analysis completed.")

\* what get_audio_analysis_result answers current_user about audio_file_id
ResultReply(current_user, audio_file_id) ==
    LET file_id == get_audio_file_by_id(audio_file_id)
        analysis_result == LatestResult(audio_file_id)
    IN  IF file_id = 0
        THEN Reply(404, "Audio file not found.", 0)
        ELSE IF audio_files[file_id].uploader_id # current_user.id
        THEN Reply(403, "You do not have access to this audio file.", 0)
        ELSE IF analysis_result = 0
        THEN AnalysisResponse(0, "Analysis not yet completed.")
        ELSE AnalysisResponse(analysis_result, "Analysis completed.")

\* get_audio_analysis_result starting the analysis itself when the uploader
\* asks for a result that does not exist yet
get_audio_analysis_result_Triggers(current_user, audio_file_id) ==
    /\ Respond("result", current_user.id, audio_file_id, ResultReply(current_user, audio_file_id))
    /\ IF /\ get_audio_file_by_id(audio_file_id) # 0
          /\ audio_files[audio_file_id].uploader_id = current_user.id
          /\ LatestResult(audio_file_id) = 0
          /\ TaskCount < MaxTasks
       THEN /\ broker' = broker \cup {[id |-> TaskCount + 1, audio_file_id |-> audio_file_id]}
            /\ UNCHANGED <<users, audio_files, s3, analysis_results, celery_results>>
       ELSE UNCHANGED <<users, pipeline>>

\* get_audio_analysis_result(audio_file_id, current_user, db)
get_audio_analysis_result(current_user, audio_file_id) ==
    /\ Respond("result", current_user.id, audio_file_id, ResultReply(current_user, audio_file_id))
    /\ UNCHANGED <<users, pipeline>>

\* -------------------------------------------------- routes/audio_upload.py
\* validate_species / validate_audio_format: TRUE when the check passes
validate_species(species) == species \in SUPPORTED_SPECIES

\* validate_audio_format letting every extension through
validate_audio_format_AnyFormat(file_format) == TRUE

validate_audio_format(file_format) == Lower(file_format) \in SUPPORTED_AUDIO_FORMATS

\* file.filename.split(".")[-1].lower(); a filename is the sequence of its
\* dot-separated parts
FileFormatOf(filename) == Lower(filename[Len(filename)])

\* f"audio/{species}/{uuid.uuid4()}_{file.filename}"; uuid4 is a fresh value,
\* here the least number no stored object carries
FreshUuid == CHOOSE n \in 1..(Cardinality(DOMAIN s3) + 1) : \A k \in DOMAIN s3 : k.uuid # n

\* the object key built from the species and the file name alone
ObjectKey_NoUuid(species, filename) == [species |-> species, uuid |-> 0, filename |-> filename]

ObjectKey(species, filename) == [species |-> species, uuid |-> FreshUuid, filename |-> filename]

\* AudioFileRead.from_orm(audio_file): the schema's field constraints
\* (file_format regex, file_size conint(gt=0, le=50 MiB)) are validated again
AudioFileRead_valid(row) ==
    /\ row.file_format \in {"wav", "mp3", "flac"}
    /\ row.file_size > 0
    /\ row.file_size <= 50 * 1024 * 1024

\* the size check rejecting a payload of exactly MAX_FILE_SIZE bytes too
TooLarge_Inclusive(size) == size >= MAX_FILE_SIZE

\* len(contents) > MAX_FILE_SIZE
TooLarge(size) == size > MAX_FILE_SIZE

\* upload_audio_file(file, species, ..., current_user, db); s3_fault is put_object
\* raising, db_fault is db.commit raising
upload_audio_file(current_user, species, filename, contents, s3_fault, db_fault) ==
    LET file_format == FileFormatOf(filename)
        size == BytesLen(contents)
        s3_object_key == ObjectKey(species, filename)
        audio_file == [uploader_id |-> current_user.id,
                       species |-> species,
                       s3_object_key |-> s3_object_key,
                       original_filename |-> filename,
                       file_format |-> file_format,
                       file_size |-> size,
                       is_encrypted |-> TRUE]
        new_id == Len(audio_files) + 1
        stored == store_encrypted_audio_file(s3_object_key, contents, s3_fault)
    IN  /\ Len(audio_files) < MaxFiles
        /\ Cardinality(DOMAIN s3) < MaxFiles
        /\ IF ~validate_species(species)
           THEN /\ Respond("upload", current_user.id, 0, Reply(400, "Species is not supported.", 0))
                /\ UNCHANGED <<s3, audio_files>>
           ELSE IF ~validate_audio_format(file_format)
           THEN /\ Respond("upload", current_user.id, 0, Reply(400, "Audio format is not supported.", 0))
                /\ UNCHANGED <<s3, audio_files>>
           ELSE IF TooLarge(size)
           THEN /\ Respond("upload", current_user.id, 0, Reply(413, "Audio file exceeds maximum allowed size (50MB).", 0))
                /\ UNCHANGED <<s3, audio_files>>
           ELSE IF stored.raised
           THEN /\ Respond("upload", current_user.id, 0, Reply(500, "Failed to store audio file.", 0))
                /\ UNCHANGED <<s3, audio_files>>
           ELSE IF db_fault
           THEN /\ s3' = stored.bucket
                /\ Respond("upload", current_user.id, 0, Reply(500, "Failed to store audio metadata.", 0))
                /\ UNCHANGED audio_files
           ELSE /\ s3' = stored.bucket
                /\ audio_files' = Append(audio_files, audio_file)
                /\ IF AudioFileRead_valid(audio_file)
                   THEN Respond("upload", current_user.id, new_id, Reply(200, "Audio file uploaded successfully.", 0))
                   ELSE Respond("upload", current_user.id, 0, Reply(500, "Internal server error", 0))
        /\ UNCHANGED <<users, analysis_results, broker, celery_results>>

\* ------------------------------------------------------ routes/species.py
list_supported_species(current_user) ==
    /\ Respond("species", current_user.id, 0, Reply(200, "supported_species", 0))
    /\ UNCHANGED <<users, pipeline>>

\* ------------------------------------------------------------- the routes
\* the audio_file_id path parameter: the ids of the rows, and one id no row has
FileIdInputs == 1..(Len(audio_files) + 1)

\* the role claims the users' tokens carry: user 1 is a researcher, user 2 a
\* researcher who is also an admin
TokenRoles == (1 :> {ROLE_RESEARCHER}) @@ (2 :> {ROLE_RESEARCHER, ROLE_ADMIN})

\* what Depends(get_current_active_researcher) hands to a route when it
\* returns: a row of users that is active, carrying its token's roles, with
\* researcher among them
ResolvedUsers ==
    {u \in [id : UserIds, is_active : {TRUE}, roles : SUBSET SUPPORTED_ROLES] :
        /\ users[u.id].is_active
        /\ u.roles = TokenRoles[u.id]
        /\ ROLE_RESEARCHER \in u.roles}

Upload ==
    \E cu \in ResolvedUsers, species \in SpeciesInputs, filename \in FilenameInputs,
       size \in SizeInputs, fault \in FaultInputs :
        /\ upload_audio_file(cu, species, filename, Repeat(FillByte, size),
                             fault = "s3", fault = "db")
        /\ credential' = NoToken

Trigger ==
    \E cu \in ResolvedUsers, audio_file_id \in FileIdInputs, broker_up \in BOOLEAN :
        /\ trigger_audio_analysis(cu, audio_file_id, broker_up)
        /\ credential' = NoToken

GetResult ==
    \E cu \in ResolvedUsers, audio_file_id \in FileIdInputs :
        /\ get_audio_analysis_result(cu, audio_file_id)
        /\ credential' = NoToken

\* a worker takes a queued task; the faults and the random quality flags are
\* its inputs (the flags are only read when no fault cuts the task short)
Worker ==
    \E task \in broker, fault \in FaultInputs, noise \in BOOLEAN, overlap \in BOOLEAN :
        /\ fault # "none" => ~noise /\ ~overlap
        /\ run_analysis_task(task, fault = "s3", fault = "db", noise, overlap)

Init ==
    /\ users = [u \in UserIds |-> [is_active |-> TRUE]]
    /\ audio_files = <<>>
    /\ s3 = <<>>
    /\ analysis_results = <<>>
    /\ broker = {}
    /\ celery_results = <<>>
    /\ resp = NoResp
    /\ credential = NoToken

Next == Upload \/ Trigger \/ GetResult \/ Worker

Spec == Init /\ [][Next]_vars

\* ---------------------------------------------------------------- auth.py
\* a bearer token: whether its HS256 signature verifies, its exp claim
\* ("none": the claim is absent), and its user_id and roles claims
Tokens ==
    [sig_ok : BOOLEAN,
     exp : {"future", "past", "none"},
     user_id : UserIds \cup {UnknownUserId, NoUserId},
     roles : SUBSET SUPPORTED_ROLES]

AuthError(detail, status_code) == [status |-> status_code, detail |-> detail, user |-> NoUser]

\* a dependency that returned: the User it hands on
Returned(user) == [status |-> 200, detail |-> "", user |-> user]

\* decode_access_token not looking at the exp claim
decode_access_token_IgnoresExp(token) ==
    IF ~token.sig_ok
    THEN AuthError("Could not validate credentials", 401)
    ELSE IF token.user_id = NoUserId \/ token.roles = {}
    THEN AuthError("Invalid authentication credentials", 401)
    ELSE Returned([id |-> token.user_id, is_active |-> FALSE, roles |-> token.roles])

\* decode_access_token(token): jwt.decode raises JWTError on a bad signature and
\* on an exp in the past (a token without exp is accepted); then the claims
\* user_id and roles must be present and roles non-empty
decode_access_token(token) ==
    IF ~token.sig_ok \/ token.exp = "past"
    THEN AuthError("Could not validate credentials", 401)
    ELSE IF token.user_id = NoUserId \/ token.roles = {}
    THEN AuthError("Invalid authentication credentials", 401)
    ELSE Returned([id |-> token.user_id, is_active |-> FALSE, roles |-> token.roles])

\* get_user_by_id(user_id, db=None): without a session it logs an error and
\* returns None
get_user_by_id(user_id, db) ==
    IF db = None THEN NoUser
    ELSE IF user_id \in DOMAIN users
    THEN [id |-> user_id, is_active |-> users[user_id].is_active, roles |-> {}]
    ELSE NoUser

\* get_current_user trusting the token's claims: no look-up of the users row,
\* no is_active check
get_current_user_TrustsToken(token) == decode_access_token(token)

\* get_current_user looking the user up with a session and not looking at
\* is_active
get_current_user_NoActiveCheck(token) ==
    LET token_data == decode_access_token(token)
        user == get_user_by_id(token_data.user.id, "db")
    IN  IF token_data.status # 200 THEN token_data
        ELSE IF user = NoUser THEN AuthError("User not found", 401)
        ELSE Returned([user EXCEPT !.is_active = TRUE, !.roles = token_data.user.roles])

\* get_current_user(token): the lookup is get_user_by_id(token_data.user_id),
\* called without a session
get_current_user(token) ==
    LET token_data == decode_access_token(token)
        user == get_user_by_id(token_data.user.id, None)
    IN  IF token_data.status # 200 THEN token_data
        ELSE IF user = NoUser THEN AuthError("User not found", 401)
        ELSE IF ~user.is_active THEN AuthError("Inactive user", 401)
        ELSE Returned([user EXCEPT !.roles = token_data.user.roles])

\* get_current_active_researcher(user = Depends(get_current_user))
get_current_active_researcher(token) ==
    LET got == get_current_user(token)
    IN  IF got.status # 200 THEN got
        ELSE IF ROLE_RESEARCHER \notin got.user.roles
        THEN AuthError("Researcher access required", 403)
        ELSE got

\* ------------------------------------------------------- whole requests
\* a request whose dependency raised: main.py's handler answers with the
\* AuthError's status and detail, and the route is not entered
Rejected(op, file, gate) ==
    /\ Respond(op, NoUserId, file, Reply(gate.status, gate.detail, 0))
    /\ UNCHANGED <<users, pipeline>>

HttpUpload ==
    \E token \in Tokens :
        LET gate == get_current_active_researcher(token)
        IN  /\ credential' = token
            /\ IF gate.status = 200
               THEN \E species \in SpeciesInputs, filename \in FilenameInputs,
                       size \in SizeInputs, fault \in FaultInputs :
                        upload_audio_file(gate.user, species, filename,
                                          Repeat(FillByte, size),
                                          fault = "s3", fault = "db")
               ELSE Rejected("upload", 0, gate)

HttpTrigger ==
    \E token \in Tokens, audio_file_id \in FileIdInputs :
        LET gate == get_current_active_researcher(token)
        IN  /\ credential' = token
            /\ IF gate.status = 200
               THEN \E broker_up \in BOOLEAN :
                        trigger_audio_analysis(gate.user, audio_file_id, broker_up)
               ELSE Rejected("trigger", audio_file_id, gate)

HttpResult ==
    \E token \in Tokens, audio_file_id \in FileIdInputs :
        LET gate == get_current_active_researcher(token)
        IN  /\ credential' = token
            /\ IF gate.status = 200
               THEN get_audio_analysis_result(gate.user, audio_file_id)
               ELSE Rejected("result", audio_file_id, gate)

HttpSpecies ==
    \E token \in Tokens :
        LET gate == get_current_active_researcher(token)
        IN  /\ credential' = token
            /\ IF gate.status = 200
               THEN list_supported_species(gate.user)
               ELSE Rejected("species", 0, gate)

\* the routes declared without a dependency: GET /health,
\* /api/audio/supported-formats and /api/audio/supported-species answer anyone
\* with a static value
PublicRoutes == {"health", "supported-formats", "supported-species"}

HttpPublic ==
    \E op \in PublicRoutes :
        /\ credential' = NoToken
        /\ Respond(op, NoUserId, 0, Reply(200, op, 0))
        /\ UNCHANGED <<users, pipeline>>

\* the users table is written by an external identity store: any rows
InitGate ==
    /\ users \in [UserIds -> [is_active : BOOLEAN]]
    /\ audio_files = <<>>
    /\ s3 = <<>>
    /\ analysis_results = <<>>
    /\ broker = {}
    /\ celery_results = <<>>
    /\ resp = NoResp
    /\ credential = NoToken

NextGate == HttpUpload \/ HttpTrigger \/ HttpResult \/ HttpSpecies \/ HttpPublic

SpecGate == InitGate /\ [][NextGate]_vars

\* --------------------------------------------------- the worker's progress
\* the celery worker process consumes the queue for as long as it has tasks:
\* a task that stays queued is eventually taken
SpecLive == Init /\ [][Next]_vars /\ WF_vars(Worker)

\* ------------------------------------------------- ingestion and storage
\* the payloads of the ingest requests: empty, one byte, 15 bytes ending in the
\* byte 1, 16 bytes of the byte 16, exactly MAX_FILE_SIZE bytes, one byte more
IngestContents ==
    {<<>>,
     Repeat(FillByte, 1),
     Concat(Repeat(FillByte, 14), Repeat(1, 1)),
     Repeat(16, 16),
     Repeat(FillByte, MAX_FILE_SIZE),
     Repeat(FillByte, MAX_FILE_SIZE + 1)}

IngestFilenames == FilenameInputs \cup {<<"song", "mp3">>}

\* what the backend does on a read: answers, fails, or answers damaged bytes
ReadFaultInputs == {"none", "s3"} \cup DOMAIN CorruptInputs

Ingest ==
    \E cu \in ResolvedUsers, species \in SpeciesInputs, filename \in IngestFilenames,
       contents \in IngestContents, fault \in FaultInputs :
        /\ upload_audio_file(cu, species, filename, contents, fault = "s3", fault = "db")
        /\ credential' = NoToken

\* a caller of storage.py reads one object back
RetrieveObject(object_key, fault) ==
    LET got == retrieve_encrypted_audio_file(object_key, fault)
    IN  /\ resp' = [op |-> "retrieve", user |-> NoUserId, file |-> 0,
                    status |-> IF got.ok THEN 200 ELSE 500,
                    detail |-> got.raised, result |-> 0,
                    key |-> object_key, body |-> get_object(object_key, fault).Body,
                    bytes |-> got.bytes]
        /\ credential' = NoToken
        /\ UNCHANGED <<users, pipeline>>

Retrieve ==
    \E object_key \in DOMAIN s3, fault \in ReadFaultInputs : RetrieveObject(object_key, fault)

NextIngest == Ingest \/ Retrieve

SpecIngest == Init /\ [][NextIngest]_vars

\* ------------------------------------------------- the worker on its own
\* The worker reads whatever rows audio_files holds. Its species check
\* provides for rows whose species the analysis does not support; the upload
\* route of this version writes none, so the tables the worker is run on here
\* are given: MaxFiles rows uploaded by user 1, each of any of the
\* SpeciesInputs, with their objects in the bucket.
SeedRow(i, uploader_id, species) ==
    [uploader_id |-> uploader_id,
     species |-> species,
     s3_object_key |-> [species |-> species, uuid |-> i, filename |-> <<"howl", "wav">>],
     original_filename |-> <<"howl", "wav">>,
     file_format |-> "wav",
     file_size |-> 1,
     is_encrypted |-> TRUE]

RECURSIVE SeedTables(_)
SeedTables(n) ==
    IF n = 0 THEN {<<>>}
    ELSE {Append(t, SeedRow(n, 1, sp)) : t \in SeedTables(n - 1), sp \in SpeciesInputs}

InitWorker ==
    /\ users = [u \in UserIds |-> [is_active |-> TRUE]]
    /\ audio_files \in SeedTables(MaxFiles)
    /\ s3 = [k \in {audio_files[i].s3_object_key : i \in 1..Len(audio_files)}
                |-> encrypt_bytes(Repeat(FillByte, 1))]
    /\ analysis_results = <<>>
    /\ broker = {}
    /\ celery_results = <<>>
    /\ resp = NoResp
    /\ credential = NoToken

NextWorker == Trigger \/ GetResult \/ Worker

SpecWorker == InitWorker /\ [][NextWorker]_vars

\* ================================================================ claims
IsOwner(current_user, audio_file_id) ==
    /\ audio_file_id \in 1..Len(audio_files)
    /\ audio_files[audio_file_id].uploader_id = current_user.id

QueuedFor(audio_file_id) == {t \in broker : t.audio_file_id = audio_file_id}

\* C1: at any time at most one analysis job per audio file is enqueued / in
\* flight, however the owner's trigger requests interleave.
C1_AtMostOneJobInFlight ==
    \A f \in 1..Len(audio_files) : Cardinality(QueuedFor(f)) <= 1

\* C2: a trigger by the owner that arrives while the job of an earlier trigger
\* for the same audio file has not finished enqueues no second job.
C2_SecondTriggerEnqueuesNothing ==
    [][\A cu \in ResolvedUsers, f \in 1..Len(audio_files) :
         (trigger_audio_analysis(cu, f, TRUE) /\ IsOwner(cu, f) /\ QueuedFor(f) # {})
            => broker' = broker]_vars

\* C3: a trigger or a result retrieval on an audio file by a principal who is
\* not its uploader answers 403, whatever roles the principal holds, returns
\* no result and enqueues nothing.
C3_OwnershipIsolation ==
    [][\A cu \in ResolvedUsers, f \in 1..Len(audio_files), b \in BOOLEAN :
         ((trigger_audio_analysis(cu, f, b) \/ get_audio_analysis_result(cu, f))
             /\ ~IsOwner(cu, f))
            => /\ resp'.status = 403
               /\ resp'.result = 0
               /\ UNCHANGED pipeline]_vars

\* a non-owner holding researcher and admin was refused the result of a file
\* that has one
C3_Witness ==
    /\ resp.op = "result"
    /\ resp.status = 403
    /\ resp.file \in 1..Len(audio_files)
    /\ audio_files[resp.file].uploader_id # resp.user
    /\ ROLE_ADMIN \in TokenRoles[resp.user]
    /\ LatestResult(resp.file) # 0

\* the token of an active user of the users table, signature-valid, unexpired
ActivePrincipalToken(token) ==
    /\ token.sig_ok
    /\ token.exp = "future"
    /\ token.user_id \in UserIds
    /\ users[token.user_id].is_active

\* the details with which the dependency chain of auth.py rejects
GateDetails ==
    {"Could not validate credentials", "Invalid authentication credentials",
     "User not found", "Inactive user", "Researcher access required"}

\* C4: a request of an active principal with a valid, unexpired token carrying
\* researcher is not rejected with 401 or 403 by get_current_user /
\* get_current_active_researcher.
C4_ResearcherPassesGate ==
    (ActivePrincipalToken(credential) /\ ROLE_RESEARCHER \in credential.roles)
        => ~(resp.status \in {401, 403} /\ resp.detail \in GateDetails)

\* C5: an ingest, trigger or result retrieval of an (active, authenticated)
\* principal whose role set is empty or lacks researcher is rejected with
\* AuthorizationError (403).
C5_NonResearcherGets403 ==
    (/\ ActivePrincipalToken(credential)
     /\ ROLE_RESEARCHER \notin credential.roles
     /\ resp.op \in {"upload", "trigger", "result"})
        => resp.status = 403

\* the token verifies and its principal is an active row holding researcher
Authorized(token) ==
    /\ token.sig_ok
    /\ token.exp # "past"
    /\ token.user_id \in UserIds
    /\ users[token.user_id].is_active
    /\ ROLE_RESEARCHER \in token.roles

\* C6: a blob write, an audio_files insert, a job enqueue or the return of an
\* analysis result only happens in a request whose token verified and whose
\* principal is active and holds researcher; a request failing the gate changes
\* no pipeline state.
C6_OnlyAuthorizedRequestsAct ==
    [][(pipeline' # pipeline \/ resp'.result # 0) => Authorized(credential')]_vars

\* an upload carrying a well-signed researcher token of an inactive user was
\* rejected and stored nothing
C6_Witness ==
    /\ resp.op = "upload"
    /\ resp.status = 401
    /\ credential.sig_ok
    /\ credential.exp = "future"
    /\ credential.user_id \in UserIds
    /\ ~users[credential.user_id].is_active
    /\ ROLE_RESEARCHER \in credential.roles
    /\ s3 = <<>>
    /\ audio_files = <<>>

\* C7: when the owner triggers analysis of a file that has no result, the job
\* is enqueued and the answer is a successful pending marker (no result, no
\* error); a result retrieval before completion likewise answers a pending
\* message, not an error.
C7_PendingIsNotAnError ==
    [][\A cu \in ResolvedUsers, f \in 1..Len(audio_files) :
         (IsOwner(cu, f) /\ LatestResult(f) = 0)
            => /\ trigger_audio_analysis(cu, f, TRUE)
                    => (resp'.status = 200 /\ resp'.result = 0 /\ broker' # broker)
               /\ get_audio_analysis_result(cu, f)
                    => (resp'.status = 200 /\ resp'.result = 0)]_vars

\* C8: once an analysis result exists for an audio file, a trigger by the owner
\* returns that result (200) and enqueues no job: no table, queue or bucket
\* changes.
C8_CompleteNeverRetriggered ==
    [][\A cu \in ResolvedUsers, f \in 1..Len(audio_files), b \in BOOLEAN :
         (trigger_audio_analysis(cu, f, b) /\ IsOwner(cu, f) /\ ResultIdsOf(f) # {})
            => /\ resp'.status = 200
               /\ resp'.result \in ResultIdsOf(f)
               /\ resp'.result = LatestResult(f)
               /\ UNCHANGED pipeline]_vars

\* the owner's trigger was answered with the file's result while nothing is queued
C8_Witness ==
    /\ resp.op = "trigger"
    /\ resp.status = 200
    /\ resp.result # 0
    /\ resp.file \in 1..Len(audio_files)
    /\ audio_files[resp.file].uploader_id = resp.user
    /\ resp.result = LatestResult(resp.file)
    /\ broker = {}

\* C9: once a trigger or retrieval has returned result R for an audio file, the
\* next trigger or retrieval answered for that file returns the same R, whatever
\* the workers did in between.
C9_ReturnedResultNeverChanges ==
    [][(/\ resp.op \in {"trigger", "result"}
        /\ resp.status = 200
        /\ resp'.op \in {"trigger", "result"}
        /\ resp'.status = 200
        /\ resp'.file = resp.file)
            => resp'.result = resp.result]_vars

\* the job of a file ended in failure: a task for it returned an error, none is
\* queued, and the file has no result
JobFailed(f) ==
    /\ \E t \in DOMAIN celery_results :
          celery_results[t].audio_file_id = f /\ celery_results[t].ret.error # None
    /\ QueuedFor(f) = {}
    /\ ResultIdsOf(f) = {}

\* the job of a file is still pending: a task is queued, none has failed
JobPending(f) ==
    /\ QueuedFor(f) # {}
    /\ ResultIdsOf(f) = {}
    /\ \A t \in DOMAIN celery_results : celery_results[t].audio_file_id # f

\* C10: after a worker failure the owner's read observes Failed: what it is
\* answered for a file whose job failed differs from what it is answered for a
\* file whose job is still pending.
C10_FailedIsObservable ==
    \A f, g \in 1..Len(audio_files) : \A cu, cv \in ResolvedUsers :
        (IsOwner(cu, f) /\ IsOwner(cv, g) /\ JobFailed(f) /\ JobPending(g))
            => ResultReply(cu, f) # ResultReply(cv, g)

\* C11: when an audio file has no job, or its previous job ended in failure (the
\* task returned an error and left no result), the next trigger by the owner
\* enqueues exactly one new task for that file.
C11_RetriggerAfterFailure ==
    [][\A cu \in ResolvedUsers, f \in 1..Len(audio_files) :
         (/\ trigger_audio_analysis(cu, f, TRUE)
          /\ IsOwner(cu, f)
          /\ QueuedFor(f) = {}
          /\ ResultIdsOf(f) = {})
            => /\ Cardinality(broker') = Cardinality(broker) + 1
               /\ \E t \in broker' \ broker :
                     /\ t.audio_file_id = f
                     /\ t.id \notin DOMAIN celery_results]_vars

\* a file whose first task failed has a second task queued by the owner's trigger
C11_Witness ==
    /\ resp.op = "trigger"
    /\ resp.file \in 1..Len(audio_files)
    /\ audio_files[resp.file].uploader_id = resp.user
    /\ QueuedFor(resp.file) # {}
    /\ ResultIdsOf(resp.file) = {}
    /\ \E t \in DOMAIN celery_results :
          /\ celery_results[t].audio_file_id = resp.file
          /\ celery_results[t].ret.error # None

\* the inputs of an ingest that pass the species and format checks
ValidIngest(species, filename) ==
    /\ species \in SUPPORTED_SPECIES
    /\ FileFormatOf(filename) \in {"wav", "mp3", "flac"}

\* the upload stored its blob and its row and answered 200 with the new row
Ingested(contents) ==
    /\ resp'.status = 200
    /\ Len(audio_files') = Len(audio_files) + 1
    /\ resp'.file = Len(audio_files')
    /\ audio_files'[resp'.file].file_size = BytesLen(contents)
    /\ audio_files'[resp'.file].s3_object_key \in DOMAIN s3' \ DOMAIN s3

\* C12: an ingest (valid species and format, no storage fault) of exactly
\* 50 MiB = 52428800 bytes succeeds; one of 52428801 bytes is refused with a
\* 4xx status and stores nothing.
C12_SizeUpperBoundary ==
    [][\A cu \in ResolvedUsers, species \in SpeciesInputs, filename \in IngestFilenames :
         ValidIngest(species, filename)
            => /\ upload_audio_file(cu, species, filename, Repeat(FillByte, 52428800), FALSE, FALSE)
                    => Ingested(Repeat(FillByte, 52428800))
               /\ \A s3_fault, db_fault \in BOOLEAN :
                    upload_audio_file(cu, species, filename, Repeat(FillByte, 52428801),
                                      s3_fault, db_fault)
                        => /\ resp'.status \in 400..499
                           /\ UNCHANGED pipeline]_vars

\* a 50 MiB object is stored and the last ingest was refused for its size
C12_Witness ==
    /\ \E i \in 1..Len(audio_files) :
          /\ audio_files[i].file_size = 52428800
          /\ audio_files[i].s3_object_key \in DOMAIN s3
    /\ resp.op = "upload"
    /\ resp.status = 413
    /\ Cardinality(DOMAIN s3) = Len(audio_files)

\* C13: an ingest of an empty payload is refused before anything is stored:
\* every audio_files row has 1 <= file_size <= 50 MiB and no stored blob is the
\* encryption of the empty payload.
C13_SizeLowerBound ==
    /\ \A i \in 1..Len(audio_files) : audio_files[i].file_size \in 1..MAX_FILE_SIZE
    /\ \A k \in DOMAIN s3 : s3[k] # encrypt_bytes(<<>>)

\* C14: an ingest stores something or answers 200 only if its species is in the
\* supported set and its format is wav, mp3 or flac; with a species outside the
\* set or the format ogg it answers 400 and stores nothing; wav with a supported
\* species is not answered 400.
C14_SpeciesAndFormatValidated ==
    [][resp'.op = "upload" =>
         \A cu \in ResolvedUsers, species \in SpeciesInputs, filename \in IngestFilenames,
            contents \in IngestContents, fault \in FaultInputs :
              upload_audio_file(cu, species, filename, contents, fault = "s3", fault = "db")
                 => /\ (resp'.status = 200 \/ pipeline' # pipeline)
                         => ValidIngest(species, filename)
                    /\ (species \notin SUPPORTED_SPECIES \/ FileFormatOf(filename) = "ogg")
                         => (resp'.status = 400 /\ UNCHANGED pipeline)
                    /\ (species \in SUPPORTED_SPECIES /\ FileFormatOf(filename) = "wav")
                         => resp'.status # 400]_vars

\* a wav recording is stored and the last ingest was refused for its format
C14_Witness ==
    /\ \E i \in 1..Len(audio_files) :
          /\ audio_files[i].file_format = "wav"
          /\ audio_files[i].species \in SUPPORTED_SPECIES
    /\ resp.op = "upload"
    /\ resp.status = 400
    /\ resp.detail = "Audio format is not supported."

\* C15: decrypt_bytes(encrypt_bytes(b)) = b for every payload b, the empty one
\* and those of a length that is a multiple of 16 included; and reading back an
\* object stored as encrypt_bytes(b) returns b.
C15_EncryptionRoundTrip ==
    [][/\ \A b \in IngestContents :
            decrypt_bytes(encrypt_bytes(b)) = [raised |-> None, bytes |-> b]
       /\ \A object_key \in DOMAIN s3, b \in IngestContents :
            (RetrieveObject(object_key, "none") /\ s3[object_key] = encrypt_bytes(b))
               => (resp'.status = 200 /\ resp'.bytes = b)]_vars

\* a stored 16-byte payload made of the byte 16 was read back unchanged
C15_Witness ==
    /\ resp.op = "retrieve"
    /\ resp.status = 200
    /\ resp.body = s3[resp.key]
    /\ resp.bytes = Repeat(16, 16)
    /\ BytesLen(resp.body.plain) = 32

\* PKCS7 padding of a decrypted block-aligned string is valid: the last byte p
\* is in 1..16 and the last p bytes all equal p
ValidPadding(decrypted) ==
    /\ decrypted # <<>>
    /\ LastByte(decrypted) \in 1..16
    /\ decrypted[Len(decrypted)].n >= LastByte(decrypted)

\* C16: when the blob read from the backend decrypts to a string whose padding
\* is invalid, retrieve_encrypted_audio_file fails and returns no bytes.
C16_CorruptCiphertextReported ==
    (/\ resp.op = "retrieve"
     /\ resp.detail # "ClientError"
     /\ ~ValidPadding(resp.body.plain))
        => (resp.status = 500 /\ resp.detail # None)

\* the species of the file a task is about is outside the analysis allow-list
UnsupportedFile(f) ==
    /\ f \in 1..Len(audio_files)
    /\ audio_files[f].species \notin
          {"canis_lupus", "panthera_leo", "delphinus_delphis", "gorilla_gorilla", "elephas_maximus"}

\* C17: a task run (no storage or database fault) on a file whose species is
\* outside the allow-list completes: it returns no error and persists one
\* result row with partial = TRUE and NULL translation and tags.
C17_UnsupportedSpeciesCompletesPartial ==
    [][\A task \in broker, noise \in BOOLEAN, overlap \in BOOLEAN :
         (run_analysis_task(task, FALSE, FALSE, noise, overlap)
             /\ UnsupportedFile(task.audio_file_id))
            => /\ Len(analysis_results') = Len(analysis_results) + 1
               /\ celery_results'[task.id].ret.error = None
               /\ celery_results'[task.id].ret.result_id = Len(analysis_results')
               /\ LET row == analysis_results'[Len(analysis_results')]
                  IN  /\ row.audio_file_id = task.audio_file_id
                      /\ row.partial
                      /\ row.translation = Null
                      /\ row.behavioral_tags = Null]_vars

\* the owner read the result of a file of an unsupported species
C17_Witness ==
    /\ resp.op = "result"
    /\ resp.status = 200
    /\ resp.result \in 1..Len(analysis_results)
    /\ UnsupportedFile(resp.file)
    /\ analysis_results[resp.result].audio_file_id = resp.file
    /\ analysis_results[resp.result].translation = Null
    /\ \E t \in DOMAIN celery_results :
          /\ celery_results[t].ret.result_id = resp.result
          /\ celery_results[t].ret.error = None

\* C18: every analysis_results row has partial = TRUE whenever one of its
\* quality_issues is TRUE or its translation is NULL.
C18_PartialInvariant ==
    \A i \in 1..Len(analysis_results) :
        (\/ analysis_results[i].quality_issues.noise
         \/ analysis_results[i].quality_issues.overlap
         \/ analysis_results[i].translation = Null)
            => analysis_results[i].partial

\* a row without any quality issue is partial because its translation is NULL,
\* next to a row that is partial because of a quality issue
C18_Witness ==
    \E i, j \in 1..Len(analysis_results) :
        /\ analysis_results[i].translation = Null
        /\ ~analysis_results[i].quality_issues.noise
        /\ ~analysis_results[i].quality_issues.overlap
        /\ analysis_results[i].partial
        /\ analysis_results[j].translation # Null
        /\ analysis_results[j].quality_issues.overlap
        /\ analysis_results[j].partial

\* C19: for a file of a supported species ingested by a researcher, the
\* researcher's first trigger is answered with the pending marker (200, no
\* result), and once a worker has completed, the researcher's retrieval returns
\* a result with a non-NULL translation whose partial flag is TRUE exactly when
\* a quality issue fired.
C19_EndToEnd ==
    [][\A cu \in ResolvedUsers, f \in 1..Len(audio_files) :
         (IsOwner(cu, f) /\ audio_files[f].species \in SUPPORTED_SPECIES)
            => /\ (/\ trigger_audio_analysis(cu, f, TRUE)
                   /\ ResultIdsOf(f) = {}
                   /\ QueuedFor(f) = {}
                   /\ \A t \in DOMAIN celery_results : celery_results[t].audio_file_id # f)
                      => (resp'.status = 200 /\ resp'.result = 0 /\ QueuedFor(f)' # {})
               /\ (get_audio_analysis_result(cu, f) /\ ResultIdsOf(f) # {})
                      => /\ resp'.status = 200
                         /\ resp'.result \in ResultIdsOf(f)
                         /\ analysis_results[resp'.result].translation # Null
                         /\ analysis_results[resp'.result].partial
                               <=> (\/ analysis_results[resp'.result].quality_issues.noise
                                    \/ analysis_results[resp'.result].quality_issues.overlap)]_vars

\* a token that is signature-valid, not expired, and carries a subject id and a
\* non-empty role set
WellFormedToken(token) ==
    /\ token.sig_ok
    /\ token.exp # "past"
    /\ token.user_id # NoUserId
    /\ token.roles # {}

\* C20: decode_access_token returns the token's claims exactly for a token that
\* is signature-valid, unexpired and carries a subject id and a non-empty role
\* set; a request with a signature-invalid or expired token is answered 401
\* "Could not validate credentials", one whose token lacks the subject id or
\* has an empty role set 401 "Invalid authentication credentials", and a request
\* with any other token is not stopped by decode_access_token.
C20_TokenVerification ==
    /\ \A token \in Tokens :
          /\ decode_access_token(token).status = 200 <=> WellFormedToken(token)
          /\ decode_access_token(token).status # 200 => decode_access_token(token).status = 401
          /\ WellFormedToken(token)
                => /\ decode_access_token(token).user.id = token.user_id
                   /\ decode_access_token(token).user.roles = token.roles
    /\ resp.op \in {"upload", "trigger", "result", "species"}
          => /\ (~credential.sig_ok \/ credential.exp = "past")
                   => (resp.status = 401 /\ resp.detail = "Could not validate credentials")
             /\ (/\ credential.sig_ok
                 /\ credential.exp # "past"
                 /\ (credential.user_id = NoUserId \/ credential.roles = {}))
                   => (resp.status = 401 /\ resp.detail = "Invalid authentication credentials")
             /\ WellFormedToken(credential)
                   => resp.detail \notin {"Could not validate credentials",
                                          "Invalid authentication credentials"}

\* a request with a well-signed but expired researcher token was answered 401
C20_Witness ==
    /\ resp.op = "trigger"
    /\ credential.sig_ok
    /\ credential.exp = "past"
    /\ credential.user_id \in UserIds
    /\ ROLE_RESEARCHER \in credential.roles
    /\ resp.status = 401
    /\ resp.detail = "Could not validate credentials"

\* the operations behind Depends(get_current_active_researcher)
GatedOps == {"upload", "trigger", "result", "species"}

\* C21: a request to ingest, trigger, retrieve a result or list the species
\* whose token names a users row with is_active = FALSE is rejected (401 or
\* 403), returns no result and changes no table, bucket or queue, whatever the
\* token's signature, expiry and roles.
C21_InactiveNeverAuthorized ==
    [][(/\ resp'.op \in GatedOps
        /\ credential' # NoToken
        /\ credential'.user_id \in UserIds
        /\ ~users[credential'.user_id].is_active)
            => /\ resp'.status \in {401, 403}
               /\ resp'.result = 0
               /\ UNCHANGED pipeline]_vars

\* a species listing with a valid, unexpired researcher token of an inactive
\* user was rejected
C21_Witness ==
    /\ resp.op = "species"
    /\ resp.status = 401
    /\ WellFormedToken(credential)
    /\ credential.exp = "future"
    /\ credential.user_id \in UserIds
    /\ ~users[credential.user_id].is_active
    /\ ROLE_RESEARCHER \in credential.roles

\* C22: a trigger or a result retrieval for an id no audio_files row has
\* answers 404 to every researcher (there is no uploader to compare with),
\* returns no result and changes no table, bucket or queue.
C22_UnknownObjectNotFound ==
    [][\A cu \in ResolvedUsers, b \in BOOLEAN :
         LET unknown == Len(audio_files) + 1
         IN  (trigger_audio_analysis(cu, unknown, b) \/ get_audio_analysis_result(cu, unknown))
                => /\ resp'.status = 404
                   /\ resp'.detail = "Audio file not found."
                   /\ resp'.result = 0
                   /\ UNCHANGED pipeline]_vars

\* with a file of user 1 stored, user 2 asked for the result of an id beyond
\* the table and was answered 404
C22_Witness ==
    /\ resp.op = "result"
    /\ resp.status = 404
    /\ resp.user = 2
    /\ resp.file = Len(audio_files) + 1
    /\ Len(audio_files) > 0
    /\ \A i \in 1..Len(audio_files) : audio_files[i].uploader_id = 1

\* C23: when run_analysis_task.delay raises, the uploader's trigger for a file
\* without a result answers 500 "Failed to trigger ML analysis." and leaves
\* the queue, the task outcomes, the results, the rows and the users as they
\* were: everything a later trigger reads is what a first trigger would read.
C23_DispatchFaultLeavesNoTrace ==
    [][\A cu \in ResolvedUsers, f \in 1..Len(audio_files) :
         (/\ IsOwner(cu, f)
          /\ LatestResult(f) = 0
          /\ trigger_audio_analysis(cu, f, FALSE))
            => /\ resp'.status = 500
               /\ resp'.detail = "Failed to trigger ML analysis."
               /\ resp'.result = 0
               /\ UNCHANGED <<users, pipeline>>]_vars

\* a dispatch fault was answered while no task was queued or had run
C23_Witness ==
    /\ resp.op = "trigger"
    /\ resp.status = 500
    /\ resp.detail = "Failed to trigger ML analysis."
    /\ resp.file \in 1..Len(audio_files)
    /\ audio_files[resp.file].uploader_id = resp.user
    /\ broker = {}
    /\ celery_results = <<>>
    /\ analysis_results = <<>>

\* C24: when put_object raises during an ingest that passed validation,
\* store_encrypted_audio_file has called it once and re-raises; the request
\* answers 500 "Failed to store audio file.", the bucket is what it was and no
\* audio_files row is added.
C24_StorageFaultOnceNoRecord ==
    [][resp'.op = "upload" =>
        \A cu \in {u \in ResolvedUsers : u.id = resp'.user}, species \in SpeciesInputs,
           filename \in IngestFilenames, contents \in IngestContents :
            (/\ ValidIngest(species, filename)
             /\ ~TooLarge(BytesLen(contents))
             /\ upload_audio_file(cu, species, filename, contents, TRUE, FALSE))
                => /\ store_encrypted_audio_file(ObjectKey(species, filename), contents, TRUE).puts = 1
                   /\ store_encrypted_audio_file(ObjectKey(species, filename), contents, TRUE).raised
                   /\ resp'.status = 500
                   /\ resp'.detail = "Failed to store audio file."
                   /\ s3' = s3
                   /\ audio_files' = audio_files]_vars

\* with one recording stored, a later ingest met the storage fault and left
\* one blob and one row
C24_Witness ==
    /\ resp.op = "upload"
    /\ resp.status = 500
    /\ resp.detail = "Failed to store audio file."
    /\ Len(audio_files) = 1
    /\ DOMAIN s3 = {audio_files[1].s3_object_key}

\* C25: after every step no two audio_files rows carry the same s3_object_key,
\* and every object of the bucket is still there with the bytes it had: no
\* put goes to a key that is already taken, also when the same user ingests
\* the same species and file name again.
C25_ObjectKeysUnique ==
    [][/\ \A i, j \in 1..Len(audio_files') :
            i # j => audio_files'[i].s3_object_key # audio_files'[j].s3_object_key
       /\ \A k \in DOMAIN s3 : k \in DOMAIN s3' /\ s3'[k] = s3[k]]_vars

\* one user ingested the same species and file name twice with different
\* payloads: two rows, two keys, two different blobs
C25_Witness ==
    /\ Len(audio_files) = 2
    /\ audio_files[1].uploader_id = audio_files[2].uploader_id
    /\ audio_files[1].species = audio_files[2].species
    /\ audio_files[1].original_filename = audio_files[2].original_filename
    /\ audio_files[1].s3_object_key # audio_files[2].s3_object_key
    /\ {audio_files[1].s3_object_key, audio_files[2].s3_object_key} = DOMAIN s3
    /\ s3[audio_files[1].s3_object_key] # s3[audio_files[2].s3_object_key]

\* C26: with the worker taking queued tasks, every task that is in the queue
\* eventually has an outcome in the result backend (a result id or an error);
\* and a task leaves the queue only with its outcome recorded: no step
\* cancels it.
C26_JobsReachOutcome ==
    /\ \A id \in 1..MaxTasks :
          (\E t \in broker : t.id = id) ~> (id \in DOMAIN celery_results)
    /\ [][\A t \in broker :
            t \notin broker' => /\ t.id \in DOMAIN celery_results'
                                /\ celery_results'[t.id].audio_file_id = t.audio_file_id]_vars

\* both tasks have run: one stored a result, the other ended with an error
C26_Witness ==
    /\ broker = {}
    /\ DOMAIN celery_results = 1..MaxTasks
    /\ \E a, b \in DOMAIN celery_results :
          /\ celery_results[a].ret.error = None
          /\ celery_results[a].ret.result_id \in 1..Len(analysis_results)
          /\ celery_results[b].ret.error # None

\* C27: a trigger request returns having at most put one task on the queue:
\* it stores no analysis result and no task outcome, and the task it enqueued
\* is still queued when it has answered. An analysis result is only ever
\* stored by a worker step that takes a queued task, and that step is no
\* request (it writes no response).
C27_TriggerDoesNotRunAnalysis ==
    [][/\ \A cu \in ResolvedUsers, f \in FileIdInputs, b \in BOOLEAN :
            trigger_audio_analysis(cu, f, b)
                => /\ analysis_results' = analysis_results
                   /\ celery_results' = celery_results
                   /\ broker \subseteq broker'
                   /\ \A t \in broker' \ broker : t.audio_file_id = f
       /\ analysis_results' # analysis_results
            => /\ resp' = resp
               /\ \E task \in broker :
                    /\ task \notin broker'
                    /\ task.id \in DOMAIN celery_results' \ DOMAIN celery_results]_vars

\* the last request was a trigger by the uploader; its task is queued and
\* nothing has run: no result, no task outcome
C27_Witness ==
    /\ resp.op = "trigger"
    /\ resp.file \in 1..Len(audio_files)
    /\ audio_files[resp.file].uploader_id = resp.user
    /\ QueuedFor(resp.file) # {}
    /\ analysis_results = <<>>
    /\ celery_results = <<>>

\* C28: every audio_files row that exists before a step (an ingest, a
\* trigger, a result retrieval or a worker run) exists after it with the same
\* s3_object_key, uploader_id, species, file_size and every other column, and
\* is_encrypted is TRUE; its blob stays in the bucket unchanged.
C28_StoredObjectImmutable ==
    [][\A i \in 1..Len(audio_files) :
        /\ i <= Len(audio_files')
        /\ audio_files'[i] = audio_files[i]
        /\ audio_files'[i].is_encrypted
        /\ audio_files[i].s3_object_key \in DOMAIN s3
            => /\ audio_files[i].s3_object_key \in DOMAIN s3'
               /\ s3'[audio_files[i].s3_object_key] = s3[audio_files[i].s3_object_key]]_vars

\* file 1 has been ingested, triggered and analysed, a second file was
\* ingested after it, and the uploader has just read file 1's result
C28_Witness ==
    /\ Len(audio_files) = 2
    /\ resp.op = "result"
    /\ resp.status = 200
    /\ resp.file = 1
    /\ audio_files[1].uploader_id = resp.user
    /\ audio_files[1].is_encrypted
    /\ audio_files[1].s3_object_key \in DOMAIN s3
    /\ \E t \in DOMAIN celery_results : celery_results[t].audio_file_id = 1

\* C29: an upload_audio_file call that answers an error leaves neither a blob
\* nor an audio_files row behind: the bucket and the table are what they were
\* before the call. (Refuted: a db.commit fault leaves the blob, and an empty
\* payload leaves blob and row before the response fails.)
C29_IngestAllOrNothing ==
    [][(resp'.op = "upload" /\ resp'.status # 200)
            => /\ s3' = s3
               /\ audio_files' = audio_files]_vars

\* C30: whatever get_audio_analysis_result answers (404, 403, the result, or
\* the failure of the pending reply), it leaves the queue, the task outcomes,
\* the analysis results, the audio_files rows, the bucket and the users
\* exactly as they were.
C30_ResultRetrievalReadOnly ==
    [][\A cu \in ResolvedUsers, f \in FileIdInputs :
         get_audio_analysis_result(cu, f) => UNCHANGED <<users, pipeline>>]_vars

\* the uploader asked for the result of a file that was never triggered:
\* afterwards there is still no task and no result
C30_Witness ==
    /\ resp.op = "result"
    /\ resp.file \in 1..Len(audio_files)
    /\ audio_files[resp.file].uploader_id = resp.user
    /\ resp.status # 200
    /\ broker = {}
    /\ celery_results = <<>>
    /\ analysis_results = <<>>

\* C31: every put encrypts under an IV of its own, so two objects of the
\* bucket never hold the same blob, and in particular two puts of the same
\* plaintext are stored as different blobs under different IVs. (Refuted:
\* encrypt_bytes uses the one module-level AES_IV for every object, so it is a
\* function of the plaintext alone.)
C31_FreshIvPerObject ==
    \A k1, k2 \in DOMAIN s3 :
        k1 # k2 => /\ s3[k1].iv # s3[k2].iv
                   /\ s3[k1] # s3[k2]

====
